---- MODULE Spec2Model ----
(***************************************************************************)
(* Connection manager of pkg/adapter/rabbitmq (rabbitmq.go): New, Connect, *)
(* GetConnect, the two closure watchers started by Connect, the broker     *)
(* resources they watch, and the reconnect supervisor of StartConsumer.    *)
(***************************************************************************)
EXTENDS Integers, Sequences, FiniteSets, TLC

\* ------------------------------------------------------------------ bounds
MaxMgr == 2      \* managers constructed by New
MaxConn == 2     \* connections a broker accepts over a run (successful dials)
MaxSpecs == 2    \* length of the lists handed to the batch declarations

\* --------------------------------------------------------------- constants
DEFAULT_MAX_RECONNECT_TIMES == 3

Mgrs == 1..MaxMgr
ConnIds == 1..MaxConn
ChanIds == 1..MaxConn

\* values of the environment variable SRV_RMQ_URI ("" is unset)
EnvUri == {"", "amqp://broker"}
\* values of SRV_RMQ_MAXX_RECONNECT_TIMES, as character sequences (<<>> is unset)
EnvMaxx == {<<>>, <<"1">>, <<"2">>, <<"x">>, <<"-", "1">>}

VARIABLES
    SRV_RMQ_URI,                   \* the process environment, fixed at start
    SRV_RMQ_MAXX_RECONNECT_TIMES,
    proc,       \* the hosting process: "running", "exited" (os.Exit), "panicked"
    rbmpool,    \* the package-level instance: 0 is the one of the var declaration
    nMgr,       \* managers constructed so far
    conn,       \* rbm.conn    : connection handle, 0 is nil
    channel,    \* rbm.channel : channel handle, 0 is nil
    conf,       \* rbm.conf    : the configuration object the manager points to, 0 is nil
    MAXX_RECONNECT_TIMES,      \* rbm.MAXX_RECONNECT_TIMES
    RMQ_MAXX_RECONNECT_TIMES,  \* conf.RMQ_MAXX_RECONNECT_TIMES of each configuration object
    state,      \* lifecycle state of the manager
    lastRet,    \* what the manager's latest Connect call returned: "none", "ok", "err"
    upc,        \* position of the caller's Connect call: "idle", "chan"
    nConn,      \* connections the broker has accepted
    connOpen,   \* broker: connection is open
    connMgr,    \* the manager whose Connect dialled the connection
    nChan,      \* channels the broker has opened
    chanOpen,   \* broker: channel is open
    chanOwner,  \* the connection a channel was opened on
    watchers,   \* the goroutines started by Connect
    sup,        \* supervisor of StartConsumer: "off", "running", "stopped"
    inFlight,   \* supervisor: a reconnect cycle is in flight
    cycles,     \* supervisor: reconnect cycles started and not finished
    attempts,   \* supervisor: Connect attempts made in the current cycle
    spc,        \* supervisor: position in the cycle: "idle", "dial", "chan"
    observer,   \* terminal errors handed to the failure observer
    ce,         \* the exchange list handed to a batch declaration
    cq,         \* the queue list handed to a batch declaration
    dop,        \* the batch declaration running: "none" or its name
    dphase,     \* its position: index of the phase in its phase order
    di,         \* its position: index of the next item of the phase's list
    exchanges,  \* broker: names of the exchanges declared
    queues,     \* broker: the queues declared (by position in cq)
    binds,      \* broker: the bindings applied, <<exchange, queue>>
    trace,      \* the declarations attempted, in order
    errs        \* the error list the batch declaration is building

vars == <<SRV_RMQ_URI, SRV_RMQ_MAXX_RECONNECT_TIMES, proc, rbmpool, nMgr, conn, channel, conf, MAXX_RECONNECT_TIMES,
          RMQ_MAXX_RECONNECT_TIMES, state, lastRet, upc, nConn, connOpen, connMgr,
          nChan, chanOpen, chanOwner, watchers, sup, inFlight, cycles, attempts,
          spc, observer, ce, cq, dop, dphase, di, exchanges, queues, binds, trace, errs>>

declVars == <<ce, cq, dop, dphase, di, exchanges, queues, binds, trace, errs>>
envVars == <<SRV_RMQ_URI, SRV_RMQ_MAXX_RECONNECT_TIMES>>
mgrVars == <<conn, channel, conf, MAXX_RECONNECT_TIMES>>
cfgVars == <<RMQ_MAXX_RECONNECT_TIMES>>
brokerVars == <<nConn, connOpen, connMgr, nChan, chanOpen, chanOwner>>
supVars == <<sup, inFlight, cycles, attempts, spc, observer>>

\* ------------------------------------------------------------ strconv.Atoi
DigitVal(c) ==
    CASE c = "0" -> 0 [] c = "1" -> 1 [] c = "2" -> 2 [] c = "3" -> 3
      [] c = "4" -> 4 [] c = "5" -> 5 [] c = "6" -> 6 [] c = "7" -> 7
      [] c = "8" -> 8 [] c = "9" -> 9 [] OTHER -> -1

RECURSIVE ParseDigits(_, _)
ParseDigits(s, acc) ==
    IF s = <<>> THEN [val |-> acc, err |-> FALSE]
    ELSE IF DigitVal(Head(s)) < 0 THEN [val |-> 0, err |-> TRUE]
    ELSE ParseDigits(Tail(s), acc * 10 + DigitVal(Head(s)))

Atoi(s) ==
    IF s = <<>> THEN [val |-> 0, err |-> TRUE]
    ELSE IF Head(s) \in {"+", "-"}
         THEN IF Tail(s) = <<>> THEN [val |-> 0, err |-> TRUE]
              ELSE LET r == ParseDigits(Tail(s), 0)
                   IN  IF Head(s) = "-" THEN [val |-> 0 - r.val, err |-> r.err] ELSE r
         ELSE ParseDigits(s, 0)

\* --------------------------------------------------------------------- Init
InitManager ==
    /\ proc = "running"
    /\ rbmpool = 0
    /\ nMgr = 0
    /\ conn = [m \in Mgrs |-> 0]
    /\ channel = [m \in Mgrs |-> 0]
    /\ conf = [m \in Mgrs |-> 0]
    /\ MAXX_RECONNECT_TIMES = [m \in Mgrs |-> 0]
    /\ RMQ_MAXX_RECONNECT_TIMES = [k \in Mgrs |-> 0]
    /\ state = [m \in Mgrs |-> "Disconnected"]
    /\ lastRet = [m \in Mgrs |-> "none"]
    /\ upc = [m \in Mgrs |-> "idle"]
    /\ nConn = 0
    /\ connOpen = [c \in ConnIds |-> FALSE]
    /\ connMgr = [c \in ConnIds |-> 0]
    /\ nChan = 0
    /\ chanOpen = [h \in ChanIds |-> FALSE]
    /\ chanOwner = [h \in ChanIds |-> 0]
    /\ watchers = <<>>
    /\ sup = [m \in Mgrs |-> "off"]
    /\ inFlight = [m \in Mgrs |-> FALSE]
    /\ cycles = [m \in Mgrs |-> 0]
    /\ attempts = [m \in Mgrs |-> 0]
    /\ spc = [m \in Mgrs |-> "idle"]
    /\ observer = [m \in Mgrs |-> 0]

InitBroker ==
    /\ dop = "none"
    /\ dphase = 0
    /\ di = 0
    /\ exchanges = {}
    /\ queues = {}
    /\ binds = {}
    /\ trace = <<>>
    /\ errs = <<>>

Init ==
    /\ SRV_RMQ_URI \in EnvUri
    /\ SRV_RMQ_MAXX_RECONNECT_TIMES \in EnvMaxx
    /\ InitManager
    /\ InitBroker
    /\ ce = <<>>
    /\ cq = <<>>

Created(m) == m \in 1..nMgr
Running == proc = "running"

\* ---------------------------------------------------------------------- New
\* New as it would be if it copied the package-level instance instead of
\* building a fresh one: the new manager inherits the handles of the old.
NewCopyingInstance ==
    /\ Running
    /\ nMgr < MaxMgr
    /\ IF SRV_RMQ_URI = ""
       THEN /\ proc' = "exited"
            /\ UNCHANGED <<rbmpool, nMgr, mgrVars, cfgVars, state, lastRet>>
       ELSE /\ RMQ_MAXX_RECONNECT_TIMES' =
                  [RMQ_MAXX_RECONNECT_TIMES EXCEPT
                     ![nMgr + 1] =
                        IF SRV_RMQ_MAXX_RECONNECT_TIMES # <<>>
                        THEN Atoi(SRV_RMQ_MAXX_RECONNECT_TIMES).val
                        ELSE DEFAULT_MAX_RECONNECT_TIMES]
            /\ nMgr' = nMgr + 1
            /\ rbmpool' = nMgr + 1
            /\ conn' = [conn EXCEPT ![nMgr + 1] = IF rbmpool = 0 THEN 0 ELSE conn[rbmpool]]
            /\ channel' = [channel EXCEPT
                              ![nMgr + 1] = IF rbmpool = 0 THEN 0 ELSE channel[rbmpool]]
            /\ conf' = [conf EXCEPT ![nMgr + 1] = nMgr + 1]
            /\ MAXX_RECONNECT_TIMES' = [MAXX_RECONNECT_TIMES EXCEPT ![nMgr + 1] = 0]
            /\ state' = [state EXCEPT ![nMgr + 1] = "Disconnected"]
            /\ lastRet' = [lastRet EXCEPT ![nMgr + 1] = "none"]
            /\ UNCHANGED proc
    /\ UNCHANGED <<declVars, envVars, upc, brokerVars, watchers, supVars>>

\* New(conf): the caller passes a configuration object of its own, which the
\* new manager points to.
New ==
    /\ Running
    /\ nMgr < MaxMgr
    /\ IF SRV_RMQ_URI = ""
       THEN /\ proc' = "exited"
            /\ UNCHANGED <<rbmpool, nMgr, mgrVars, cfgVars, state, lastRet>>
       ELSE /\ RMQ_MAXX_RECONNECT_TIMES' =
                  [RMQ_MAXX_RECONNECT_TIMES EXCEPT
                     ![nMgr + 1] =
                        IF SRV_RMQ_MAXX_RECONNECT_TIMES # <<>>
                        THEN Atoi(SRV_RMQ_MAXX_RECONNECT_TIMES).val
                        ELSE DEFAULT_MAX_RECONNECT_TIMES]
            /\ nMgr' = nMgr + 1
            /\ rbmpool' = nMgr + 1
            /\ conn' = [conn EXCEPT ![nMgr + 1] = 0]
            /\ channel' = [channel EXCEPT ![nMgr + 1] = 0]
            /\ conf' = [conf EXCEPT ![nMgr + 1] = nMgr + 1]
            /\ MAXX_RECONNECT_TIMES' = [MAXX_RECONNECT_TIMES EXCEPT ![nMgr + 1] = 0]
            /\ state' = [state EXCEPT ![nMgr + 1] = "Disconnected"]
            /\ lastRet' = [lastRet EXCEPT ![nMgr + 1] = "none"]
            /\ UNCHANGED proc
    /\ UNCHANGED <<declVars, envVars, upc, brokerVars, watchers, supVars>>

\* ------------------------------------------------------------------ Connect
\* rbm.conn, err = amqp.Dial(...), and on success the go statement that
\* starts the connection watcher. The goroutine is taken to register
\* NotifyClose on the connection just dialled as soon as it is started; a
\* connection that is already closed then notifies at once.
Dial(m, ok) ==
    IF ok
    THEN /\ nConn < MaxConn
         /\ nConn' = nConn + 1
         /\ connOpen' = [connOpen EXCEPT ![nConn + 1] = TRUE]
         /\ connMgr' = [connMgr EXCEPT ![nConn + 1] = m]
         /\ conn' = [conn EXCEPT ![m] = nConn + 1]
         /\ watchers' = Append(watchers,
                [mgr |-> m, kind |-> "conn", res |-> nConn + 1, st |-> "waiting"])
         /\ UNCHANGED <<proc, channel, nChan, chanOpen, chanOwner>>
    ELSE /\ conn' = [conn EXCEPT ![m] = 0]
         /\ UNCHANGED <<proc, channel, brokerVars, watchers>>

\* rbm.channel, err = rbm.conn.Channel(), and on success the go statement
\* that starts the channel watcher. A nil rbm.conn is a nil dereference (it
\* takes a failed dial of a second, concurrent Connect() on the same manager).
OpenChannel(m, ok) ==
    IF conn[m] = 0
    THEN /\ proc' = "panicked"
         /\ UNCHANGED <<conn, channel, brokerVars, watchers>>
    ELSE IF ok
    THEN /\ connOpen[conn[m]]
         /\ nChan < MaxConn
         /\ nChan' = nChan + 1
         /\ chanOpen' = [chanOpen EXCEPT ![nChan + 1] = TRUE]
         /\ chanOwner' = [chanOwner EXCEPT ![nChan + 1] = conn[m]]
         /\ channel' = [channel EXCEPT ![m] = nChan + 1]
         /\ watchers' = Append(watchers,
                [mgr |-> m, kind |-> "chan", res |-> nChan + 1, st |-> "waiting"])
         /\ UNCHANGED <<proc, conn, nConn, connOpen, connMgr>>
    ELSE /\ channel' = [channel EXCEPT ![m] = 0]
         /\ UNCHANGED <<proc, conn, brokerVars, watchers>>

\* A caller's Connect(), first half: the dial. Callers hold the instance the
\* latest New returned, and leave connecting to the supervisor while one is
\* running on it (the supervisor is the only writer of connection state then).
ConnectDial(m, ok) ==
    /\ Running
    /\ Created(m)
    /\ m = rbmpool
    /\ sup[m] # "running"
    /\ upc[m] = "idle"
    /\ Dial(m, ok)
    /\ IF ok
       THEN /\ upc' = [upc EXCEPT ![m] = "chan"]
            /\ state' = [state EXCEPT ![m] = "Connecting"]
            /\ lastRet' = [lastRet EXCEPT ![m] = "none"]
       ELSE /\ state' = [state EXCEPT ![m] = "Disconnected"]
            /\ lastRet' = [lastRet EXCEPT ![m] = "err"]
            /\ UNCHANGED upc
    /\ UNCHANGED <<declVars, envVars, rbmpool, nMgr, conf, MAXX_RECONNECT_TIMES, cfgVars, supVars>>

\* A caller's Connect(), second half: the channel.
ConnectChannel(m, ok) ==
    /\ Running
    /\ upc[m] = "chan"
    /\ OpenChannel(m, ok)
    /\ upc' = [upc EXCEPT ![m] = "idle"]
    /\ IF conn[m] = 0
       THEN UNCHANGED <<state, lastRet>>
       ELSE IF ok
       THEN /\ state' = [state EXCEPT ![m] = "Connected"]
            /\ lastRet' = [lastRet EXCEPT ![m] = "ok"]
       ELSE /\ state' = [state EXCEPT ![m] = "Disconnected"]
            /\ lastRet' = [lastRet EXCEPT ![m] = "err"]
    /\ UNCHANGED <<declVars, envVars, rbmpool, nMgr, conf, MAXX_RECONNECT_TIMES, cfgVars, supVars>>

\* --------------------------------------------------------------- GetConnect
\* GetConnect as it would be if it returned the package-level instance instead
\* of its receiver.
GetConnectPackageLevel(m) ==
    [rbm |-> rbmpool, conn |-> conn[rbmpool], channel |-> channel[rbmpool],
     err |-> "nil"]

\* GetConnect returns its receiver and never an error; it changes no state,
\* so every state is one in which a caller may be holding its result.
GetConnect(m) ==
    [rbm |-> m, conn |-> conn[m], channel |-> channel[m], err |-> "nil"]


\* ------------------------------------------------------------------- broker
WIds == 1..Len(watchers)

\* The watchers after a closure: the receive from NotifyClose of every watcher
\* whose resource is no longer open (open1, open2: the connections and the
\* channels still open) returns, and the watcher blocks in rbm.err <- ...
Notify(open1, open2) ==
    [w \in WIds |->
        IF /\ watchers[w].st = "waiting"
           /\ ~(IF watchers[w].kind = "conn" THEN open1[watchers[w].res]
                ELSE open2[watchers[w].res])
        THEN [watchers[w] EXCEPT !.st = "posting"]
        ELSE watchers[w]]

\* The broker (or the network) closes a connection, and with it its channels.
CloseConnection(c) ==
    /\ Running
    /\ c \in 1..nConn
    /\ connOpen[c]
    /\ connOpen' = [connOpen EXCEPT ![c] = FALSE]
    /\ chanOpen' = [h \in ChanIds |-> chanOpen[h] /\ chanOwner[h] # c]
    /\ watchers' = Notify(connOpen', chanOpen')
    /\ UNCHANGED <<declVars, envVars, proc, rbmpool, nMgr, mgrVars, cfgVars, state, lastRet, upc,
                   nConn, connMgr, nChan, chanOwner, supVars>>

\* The broker closes one channel and leaves its connection open.
CloseChannel(h) ==
    /\ Running
    /\ h \in 1..nChan
    /\ chanOpen[h]
    /\ chanOpen' = [chanOpen EXCEPT ![h] = FALSE]
    /\ watchers' = Notify(connOpen, chanOpen')
    /\ UNCHANGED <<declVars, envVars, proc, rbmpool, nMgr, mgrVars, cfgVars, state, lastRet, upc,
                   nConn, connOpen, connMgr, nChan, chanOwner, supVars>>

\* --------------------------------------------------------------- supervisor
MaxAttempts(m) == RMQ_MAXX_RECONNECT_TIMES[conf[m]]

StartConsumer(m) ==
    /\ Running
    /\ Created(m)
    /\ m = rbmpool
    /\ sup[m] = "off"
    /\ state[m] = "Connected"
    /\ sup' = [sup EXCEPT ![m] = "running"]
    /\ UNCHANGED <<declVars, envVars, proc, rbmpool, nMgr, mgrVars, cfgVars, state, lastRet, upc,
                   brokerVars, watchers, inFlight, cycles, attempts, spc, observer>>

\* The supervisor receives from rbm.err the notification watcher w is
\* posting (the channel is unbuffered: send and receive are one step).
\* It starts a reconnect cycle unless one is in flight.
\* A supervisor without the in-flight guard.
StartsCycleUnguarded(m) == TRUE

StartsCycle(m) == ~inFlight[m]

Receive(m, w) ==
    /\ Running
    /\ sup[m] = "running"
    /\ w \in WIds
    /\ watchers[w].mgr = m
    /\ watchers[w].st = "posting"
    /\ watchers' = [watchers EXCEPT ![w].st = "done"]
    /\ IF StartsCycle(m)
       THEN /\ inFlight' = [inFlight EXCEPT ![m] = TRUE]
            /\ cycles' = [cycles EXCEPT ![m] = @ + 1]
            /\ attempts' = [attempts EXCEPT ![m] = 0]
            /\ spc' = [spc EXCEPT ![m] = "dial"]
            /\ state' = [state EXCEPT ![m] = "Connecting"]
       ELSE UNCHANGED <<inFlight, cycles, attempts, spc, state>>
    /\ UNCHANGED <<declVars, envVars, proc, rbmpool, nMgr, mgrVars, cfgVars, lastRet, upc,
                   brokerVars, sup, observer>>

\* An attempt loop that is off by one.
MayAttemptOffByOne(m) == attempts[m] <= RMQ_MAXX_RECONNECT_TIMES[conf[m]]

\* One more attempt is allowed in the cycle.
MayAttempt(m) == attempts[m] < MaxAttempts(m)

\* A reconnect attempt, first half of Connect().
ReconnectDial(m, ok) ==
    /\ Running
    /\ spc[m] = "dial"
    /\ MayAttempt(m)
    /\ Dial(m, ok)
    /\ attempts' = [attempts EXCEPT ![m] = @ + 1]
    /\ lastRet' = [lastRet EXCEPT ![m] = IF ok THEN "none" ELSE "err"]
    /\ spc' = [spc EXCEPT ![m] = IF ok THEN "chan" ELSE "dial"]
    /\ state' = [state EXCEPT ![m] = "Connecting"]
    /\ UNCHANGED <<declVars, envVars, rbmpool, nMgr, conf, MAXX_RECONNECT_TIMES, cfgVars, upc,
                   sup, inFlight, cycles, observer>>

\* A reconnect attempt, second half of Connect(); success ends the cycle.
ReconnectChannel(m, ok) ==
    /\ Running
    /\ spc[m] = "chan"
    /\ OpenChannel(m, ok)
    /\ IF conn[m] = 0
       THEN UNCHANGED <<state, lastRet, spc, inFlight, cycles>>
       ELSE IF ok
       THEN /\ state' = [state EXCEPT ![m] = "Connected"]
            /\ lastRet' = [lastRet EXCEPT ![m] = "ok"]
            /\ spc' = [spc EXCEPT ![m] = "idle"]
            /\ inFlight' = [inFlight EXCEPT ![m] = FALSE]
            /\ cycles' = [cycles EXCEPT ![m] = @ - 1]
       ELSE /\ state' = [state EXCEPT ![m] = "Connecting"]
            /\ lastRet' = [lastRet EXCEPT ![m] = "err"]
            /\ spc' = [spc EXCEPT ![m] = "dial"]
            /\ UNCHANGED <<inFlight, cycles>>
    /\ UNCHANGED <<declVars, envVars, rbmpool, nMgr, conf, MAXX_RECONNECT_TIMES, cfgVars, upc,
                   sup, attempts, observer>>

\* An exhaustion that tells nobody.
NotifiedNobody(m) == observer[m]

\* The attempts are used up: terminal failure, reported to the observer.
Notified(m) == observer[m] + 1

Exhaust(m) ==
    /\ Running
    /\ spc[m] = "dial"
    /\ ~MayAttempt(m)
    /\ state' = [state EXCEPT ![m] = "Disconnected"]
    /\ observer' = [observer EXCEPT ![m] = Notified(m)]
    /\ sup' = [sup EXCEPT ![m] = "stopped"]
    /\ spc' = [spc EXCEPT ![m] = "idle"]
    /\ inFlight' = [inFlight EXCEPT ![m] = FALSE]
    /\ cycles' = [cycles EXCEPT ![m] = @ - 1]
    /\ UNCHANGED <<declVars, envVars, proc, rbmpool, nMgr, mgrVars, cfgVars, lastRet, upc,
                   brokerVars, watchers, attempts>>

\* --------------------------------------------------------------------- Next
Next ==
    \/ New
    \/ \E m \in Mgrs, ok \in BOOLEAN : ConnectDial(m, ok)
    \/ \E m \in Mgrs, ok \in BOOLEAN : ConnectChannel(m, ok)
    \/ \E c \in ConnIds : CloseConnection(c)
    \/ \E h \in ChanIds : CloseChannel(h)
    \/ \E m \in Mgrs : StartConsumer(m)
    \/ \E m \in Mgrs, w \in WIds : Receive(m, w)
    \/ \E m \in Mgrs, ok \in BOOLEAN : ReconnectDial(m, ok)
    \/ \E m \in Mgrs, ok \in BOOLEAN : ReconnectChannel(m, ok)
    \/ \E m \in Mgrs : Exhaust(m)

Spec == Init /\ [][Next]_vars

\* The goroutines that exist are scheduled: a supervisor that can receive,
\* attempt or give up eventually does. Nothing makes a caller call anything.
Fairness ==
    \A m \in Mgrs :
        /\ WF_vars(\E w \in 1..(2 * MaxConn) : Receive(m, w))
        /\ WF_vars(\E ok \in BOOLEAN : ReconnectDial(m, ok))
        /\ WF_vars(\E ok \in BOOLEAN : ReconnectChannel(m, ok))
        /\ WF_vars(Exhaust(m))

FairSpec == Init /\ [][Next]_vars /\ Fairness

\* ------------------------------------------------------- batch declarations
\* CompleteExchangeDeclare, CompleteQueueDeclare and CompleteDeclare, with the
\* single declarations they are made of.
ExchangeNames == {"a", "b"}
\* An exchange of the list: its name, and whether the broker rejects it.
Exchanges == [Name : ExchangeNames, bad : BOOLEAN]
\* A queue of the list: the exchange its Bind names ("" for no bind), and
\* whether the broker rejects it.
Queues == [Bind : ExchangeNames \cup {""}, bad : BOOLEAN]

RECURSIVE ListsOf(_, _)
ListsOf(S, n) ==
    IF n = 0 THEN {<<>>}
    ELSE LET shorter == ListsOf(S, n - 1)
         IN  shorter \cup {Append(l, x) : l \in {k \in shorter : Len(k) = n - 1}, x \in S}

BatchOps == {"CompleteDeclare", "CompleteQueueDeclare", "CompleteExchangeDeclare"}

\* A CompleteDeclare that declares the queues before the exchanges.
PhaseOrderQueuesFirst(op) ==
    IF op = "CompleteDeclare" THEN <<"queues", "exchanges">>
    ELSE IF op = "CompleteQueueDeclare" THEN <<"queues">>
    ELSE <<"exchanges">>

\* The lists a batch declaration goes through, in order.
PhaseOrder(op) ==
    IF op = "CompleteDeclare" THEN <<"exchanges", "queues">>
    ELSE IF op = "CompleteQueueDeclare" THEN <<"queues">>
    ELSE <<"exchanges">>

\* A batch that stops at the first item that fails.
NextItemAborting(list, i, failed) == IF failed THEN Len(list) + 1 ELSE i + 1

\* The item a batch goes on with after item i of its list.
NextItem(list, i, failed) == i + 1

Phase == IF dphase \in 1..Len(PhaseOrder(dop)) THEN PhaseOrder(dop)[dphase] ELSE "done"

\* The caller starts a batch declaration.
StartDeclare(op) ==
    /\ dop = "none"
    /\ dop' = op
    /\ dphase' = 1
    /\ di' = 1
    /\ UNCHANGED <<ce, cq, exchanges, queues, binds, trace, errs>>
    /\ UNCHANGED <<envVars, proc, rbmpool, nMgr, mgrVars, cfgVars, state, lastRet, upc,
                   brokerVars, watchers, supVars>>

\* SimpleExchangeDeclare on the next exchange of the list; its error, if any,
\* is appended and the batch goes on.
DeclareExchange ==
    /\ Phase = "exchanges"
    /\ di <= Len(ce)
    /\ trace' = Append(trace, [kind |-> "exchange", item |-> di])
    /\ IF ce[di].bad
       THEN /\ errs' = Append(errs, [kind |-> "exchange", item |-> di])
            /\ UNCHANGED exchanges
       ELSE /\ exchanges' = exchanges \cup {ce[di].Name}
            /\ UNCHANGED errs
    /\ di' = NextItem(ce, di, ce[di].bad)
    /\ UNCHANGED <<ce, cq, dop, dphase, queues, binds>>
    /\ UNCHANGED <<envVars, proc, rbmpool, nMgr, mgrVars, cfgVars, state, lastRet, upc,
                   brokerVars, watchers, supVars>>

\* SimpleQueueDeclare on the next queue of the list: the queue is declared,
\* then its bind is applied, which fails when the exchange does not exist.
QueueFails(q) == q.bad \/ (q.Bind # "" /\ q.Bind \notin exchanges)

DeclareQueue ==
    /\ Phase = "queues"
    /\ di <= Len(cq)
    /\ trace' = Append(trace, [kind |-> "queue", item |-> di])
    /\ queues' = IF cq[di].bad THEN queues ELSE queues \cup {di}
    /\ binds' = IF QueueFails(cq[di]) \/ cq[di].Bind = "" THEN binds
                ELSE binds \cup {<<cq[di].Bind, di>>}
    /\ errs' = IF QueueFails(cq[di]) THEN Append(errs, [kind |-> "queue", item |-> di])
               ELSE errs
    /\ di' = NextItem(cq, di, QueueFails(cq[di]))
    /\ UNCHANGED <<ce, cq, dop, dphase, exchanges>>
    /\ UNCHANGED <<envVars, proc, rbmpool, nMgr, mgrVars, cfgVars, state, lastRet, upc,
                   brokerVars, watchers, supVars>>

\* The list of the phase is through: on to the next list, or return errs.
EndPhase ==
    /\ \/ Phase = "exchanges" /\ di > Len(ce)
       \/ Phase = "queues" /\ di > Len(cq)
    /\ dphase' = dphase + 1
    /\ di' = 1
    /\ UNCHANGED <<ce, cq, dop, exchanges, queues, binds, trace, errs>>
    /\ UNCHANGED <<envVars, proc, rbmpool, nMgr, mgrVars, cfgVars, state, lastRet, upc,
                   brokerVars, watchers, supVars>>

Returned == dop # "none" /\ Phase = "done"

InitDeclare ==
    /\ SRV_RMQ_URI = "amqp://broker"
    /\ SRV_RMQ_MAXX_RECONNECT_TIMES = <<>>
    /\ InitManager
    /\ InitBroker
    /\ ce \in ListsOf(Exchanges, MaxSpecs)
    /\ cq \in ListsOf(Queues, MaxSpecs)

NextDeclare ==
    \/ \E op \in BatchOps : StartDeclare(op)
    \/ DeclareExchange
    \/ DeclareQueue
    \/ EndPhase

SpecDeclare == InitDeclare /\ [][NextDeclare]_vars

\* ===================================================================== claims
OpenConns(m) == {c \in 1..nConn : connMgr[c] = m /\ connOpen[c]}
OpenChans(m) == {h \in 1..nChan : connMgr[chanOwner[h]] = m /\ chanOpen[h]}

\* C1: whenever Connect() returns an error (dial failed, or dial succeeded and
\* the channel could not be opened) the manager is left with a null connection
\* handle and a null channel handle, and it retains no open connection.
C1_FailedConnectLeavesNullHandles ==
    \A m \in Mgrs :
        (Created(m) /\ lastRet[m] = "err" /\ upc[m] = "idle" /\ spc[m] # "chan")
            => (conn[m] = 0 /\ channel[m] = 0 /\ OpenConns(m) = {})

\* C2: in every reachable state a manager has at most one open connection and
\* at most one open operational channel.
C2_AtMostOneOpenConnectionAndChannel ==
    \A m \in Mgrs :
        Cardinality(OpenConns(m)) <= 1 /\ Cardinality(OpenChans(m)) <= 1

\* C3: the handles agree with the lifecycle state: Connected means both
\* handles are non-null and the channel is one of the connection held;
\* Disconnected means both handles are null.
C3_HandlesAgreeWithState ==
    \A m \in Mgrs :
        Created(m) =>
            /\ state[m] = "Connected" =>
                  (conn[m] # 0 /\ channel[m] # 0 /\ chanOwner[channel[m]] = conn[m])
            /\ state[m] = "Disconnected" => (conn[m] = 0 /\ channel[m] = 0)

\* C4: whenever the manager is not Connected the accessor returns a
\* NotConnectedError and no channel handle.
C4_AccessorFailsWhenNotConnected ==
    \A m \in Mgrs :
        (Created(m) /\ state[m] # "Connected")
            => (GetConnect(m).err = "NotConnectedError" /\ GetConnect(m).channel = 0)

\* C5: from a successful Connect() until a closure is detected (the manager is
\* Connected) the accessor returns, without error, the manager itself holding
\* the channel that Connect() opened on the connection it holds; and whenever
\* that channel is no longer open a watcher of the manager has the closure to
\* report or has reported it.
ClosureKnown(m) ==
    \E w \in WIds : watchers[w].mgr = m /\ watchers[w].st \in {"posting", "done"}

C5_AccessorReturnsLiveChannelWhileConnected ==
    \A m \in Mgrs :
        (Created(m) /\ state[m] = "Connected") =>
            LET r == GetConnect(m)
            IN  /\ r.err = "nil"
                /\ r.rbm = m
                /\ r.conn # 0
                /\ r.channel # 0
                /\ chanOwner[r.channel] = r.conn
                /\ connMgr[r.conn] = m
                /\ (chanOpen[r.channel] \/ ClosureKnown(m))

\* C5 witness: a manager whose Connect() succeeded is Connected with its
\* channel open, after New has made another manager the package-level one.
C5_Witness ==
    \E m \in Mgrs :
        /\ Created(m) /\ state[m] = "Connected" /\ lastRet[m] = "ok"
        /\ chanOpen[channel[m]]
        /\ rbmpool # m

\* C6: a caller of the accessor while a Connect() sequence is running (between
\* its dial and its channel-open) never sees a torn pair: a connection with a
\* null channel or with a channel of another connection.
Torn(r) ==
    \/ r.conn # 0 /\ r.channel = 0
    \/ r.conn # 0 /\ r.channel # 0 /\ chanOwner[r.channel] # r.conn
    \/ r.conn = 0 /\ r.channel # 0

C6_NoTornPairDuringConnect ==
    \A m \in Mgrs :
        (Created(m) /\ (upc[m] = "chan" \/ spc[m] = "chan")) => ~Torn(GetConnect(m))

\* C7: in every reconnect cycle the number of Connect() attempts made is at
\* most the configured maximum N: attempt N+1 never occurs (and none at all
\* when N is zero or negative).
C7_AttemptsBounded ==
    \A m \in Mgrs :
        (Created(m) /\ attempts[m] > 0) => attempts[m] <= MaxAttempts(m)

\* C7 witness: a cycle has made all of N >= 2 attempts.
C7_Witness ==
    \E m \in Mgrs :
        Created(m) /\ inFlight[m] /\ MaxAttempts(m) >= 2 /\ attempts[m] = MaxAttempts(m)

\* C8: at most one reconnect cycle is in flight per manager, whatever the
\* order in which the two watchers post their notifications.
C8_AtMostOneCycleInFlight ==
    \A m \in Mgrs : cycles[m] <= 1 /\ (cycles[m] = 1 <=> inFlight[m])

\* C8 witness: both watchers of the first connection have posted, the first
\* notification started the cycle and the second was received during it.
C8_Witness ==
    \E m \in Mgrs :
        /\ inFlight[m] /\ cycles[m] = 1 /\ nConn = 1
        /\ Cardinality({w \in WIds : watchers[w].mgr = m /\ watchers[w].st = "done"}) = 2

C10_HostProcessKeepsRunning == proc = "running"

\* C11: after New the maximum reconnect-attempt count the manager holds (through
\* its configuration) is 3 when SRV_RMQ_MAXX_RECONNECT_TIMES is unset and the
\* configured integer when it is set; it is never anything else.
C11_MaximumIsDefaultOrConfigured ==
    \A m \in Mgrs :
        Created(m) =>
            IF SRV_RMQ_MAXX_RECONNECT_TIMES = <<>>
            THEN MaxAttempts(m) = DEFAULT_MAX_RECONNECT_TIMES
            ELSE /\ ~Atoi(SRV_RMQ_MAXX_RECONNECT_TIMES).err
                 /\ MaxAttempts(m) = Atoi(SRV_RMQ_MAXX_RECONNECT_TIMES).val

\* C14: watchers are started only by a successful Connect(): a call that
\* returned nil has started exactly two, one on the connection and one on the
\* channel it opened, and a call that returned an error has left no watcher
\* that is running (waiting for a closure, or posting one).
WatchersOn(m, kind, r) ==
    {w \in WIds : watchers[w].mgr = m /\ watchers[w].kind = kind /\ watchers[w].res = r}

RunningWatchersOn(m, kind, r) ==
    {w \in WatchersOn(m, kind, r) : watchers[w].st \in {"waiting", "posting"}}

C14_WatchersOnlyFromSuccessfulConnect ==
    \A m \in Mgrs :
        (Created(m) /\ upc[m] = "idle" /\ spc[m] # "chan") =>
            /\ lastRet[m] = "ok" =>
                  /\ Cardinality(WatchersOn(m, "conn", conn[m])) = 1
                  /\ Cardinality(WatchersOn(m, "chan", channel[m])) = 1
            /\ (lastRet[m] = "err" /\ conn[m] # 0) =>
                  RunningWatchersOn(m, "conn", conn[m]) = {}

\* C16: once a reconnect has succeeded, a notification that makes the
\* supervisor start a cycle comes from a watcher of the connection/channel
\* pair the manager holds now, never from a watcher of a pair it replaced.
Reconnected(m) ==
    sup[m] = "running" /\ ~inFlight[m] /\ attempts[m] >= 1 /\ state[m] = "Connected"

WatchesCurrentPair(w) ==
    watchers[w].res = IF watchers[w].kind = "conn" THEN conn[watchers[w].mgr]
                      ELSE channel[watchers[w].mgr]

C16_CycleStartsFromCurrentPairOnly ==
    [][\A m \in Mgrs : \A w \in WIds :
          (/\ Reconnected(m)
           /\ watchers[w].mgr = m
           /\ watchers[w].st = "posting"
           /\ watchers'[w].st = "done"
           /\ inFlight'[m])
              => WatchesCurrentPair(w)]_vars

\* C17: every New that returns yields a manager that is Disconnected, with
\* null handles and no watcher posting to its notification channel, and makes
\* it the package-level instance; the managers constructed before keep their
\* handles and state, and no connection, channel or watcher is touched.
C17_NewYieldsFreshManagerAndKeepsOld ==
    [][nMgr' = nMgr + 1 =>
          /\ rbmpool' = nMgr'
          /\ conn'[nMgr'] = 0
          /\ channel'[nMgr'] = 0
          /\ state'[nMgr'] = "Disconnected"
          /\ \A w \in 1..Len(watchers') : watchers'[w].mgr # nMgr'
          /\ \A m \in 1..nMgr :
                conn'[m] = conn[m] /\ channel'[m] = channel[m] /\ state'[m] = state[m]
          /\ connOpen' = connOpen
          /\ chanOpen' = chanOpen
          /\ watchers' = watchers]_vars

\* C17 witness: New has replaced a manager that is Connected on an open
\* connection; the new one holds nothing.
C17_Witness ==
    /\ nMgr = 2 /\ rbmpool = 2
    /\ state[1] = "Connected" /\ conn[1] # 0 /\ connOpen[conn[1]] /\ channel[1] # 0
    /\ conn[2] = 0 /\ channel[2] = 0 /\ state[2] = "Disconnected"

\* C15: a watcher whose resource has closed (it is posting its notification)
\* eventually finishes posting and terminates, under fair scheduling of the
\* goroutines: no watcher stays blocked on the notification channel forever.
C15_PostingWatcherTerminates ==
    \A w \in 1..(2 * MaxConn) :
        (w \in WIds /\ watchers[w].st = "posting")
            ~> (w \in WIds /\ watchers[w].st = "done")

\* What the input lists alone say the outcome must be.
GoodExchanges == {ce[i].Name : i \in {j \in 1..Len(ce) : ~ce[j].bad}}
AvailableExchanges == IF dop = "CompleteQueueDeclare" THEN {} ELSE GoodExchanges
BadExchangeAt(i) == ce[i].bad
BadQueueAt(j) == cq[j].bad \/ (cq[j].Bind # "" /\ cq[j].Bind \notin AvailableExchanges)
Indices(n) == [i \in 1..n |-> i]
ErrorsOf(kind, items) == [i \in 1..Len(items) |-> [kind |-> kind, item |-> items[i]]]
Ordered(s) ==
    \A i, j \in 1..Len(s) : i < j => ~(s[i].kind = "queue" /\ s[j].kind = "exchange")
ItemsOf(s, kind) ==
    LET sel == SelectSeq(s, LAMBDA e : e.kind = kind)
    IN  [i \in 1..Len(sel) |-> sel[i].item]

\* C12: CompleteDeclare attempts every exchange of its list before any queue,
\* and returns one list: the errors of the exchanges, in list order, followed
\* by the errors of the queues, in list order.
C12_ExchangesBeforeQueues ==
    dop = "CompleteDeclare" =>
        /\ Ordered(trace)
        /\ Ordered(errs)
        /\ (\E i \in 1..Len(trace) : trace[i].kind = "queue")
              => ItemsOf(trace, "exchange") = Indices(Len(ce))
        /\ Returned =>
              errs = ErrorsOf("exchange", SelectSeq(Indices(Len(ce)), BadExchangeAt))
                       \o ErrorsOf("queue", SelectSeq(Indices(Len(cq)), BadQueueAt))

\* C12 witness: a CompleteDeclare has returned with an error of each phase and
\* a bind applied to an exchange it declared.
C12_Witness ==
    /\ dop = "CompleteDeclare" /\ Returned
    /\ Len(ce) = 2 /\ Len(cq) = 2
    /\ \E i \in 1..Len(errs) : errs[i].kind = "exchange"
    /\ \E i \in 1..Len(errs) : errs[i].kind = "queue"
    /\ binds # {}

\* C13: a batch queue declaration never stops early: the queues are attempted
\* in list order, all of them by the time it returns; the list returned holds
\* exactly one error for each queue that fails and none for the others, in
\* list order; and every queue the broker accepts is declared, those after a
\* failing one included.
C13_QueueBatchNeverAborts ==
    dop \in {"CompleteQueueDeclare", "CompleteDeclare"} =>
        /\ \E k \in 0..Len(cq) : ItemsOf(trace, "queue") = Indices(k)
        /\ Returned =>
              /\ ItemsOf(trace, "queue") = Indices(Len(cq))
              /\ ItemsOf(errs, "queue") = SelectSeq(Indices(Len(cq)), BadQueueAt)
              /\ \A j \in 1..Len(cq) : ~cq[j].bad => j \in queues

\* C13 witness: a CompleteQueueDeclare has returned; its first queue failed,
\* its second is declared, and the list holds the one error.
C13_Witness ==
    /\ dop = "CompleteQueueDeclare" /\ Returned
    /\ Len(cq) = 2 /\ cq[1].bad /\ ~cq[2].bad /\ cq[2].Bind = ""
    /\ 2 \in queues
    /\ errs = <<[kind |-> "queue", item |-> 1]>>

====
